---- MODULE Spec2Model ----
(***************************************************************************)
(* The device lifecycle handler of the DRA example driver (package         *)
(* driver): NodePrepareResources / NodeUnprepareResources, the resource    *)
(* file they rewrite, the podResources map and the CDI spec file; and the  *)
(* resource publisher with the shutdown path of main.                      *)
(*                                                                         *)
(* Go strings that the code formats, splits or slices (claim uid, claim    *)
(* name, pod name, the resource file's content) are sequences of           *)
(* one-character strings; paths and error texts, which the code only       *)
(* passes along, are TLA+ strings.                                         *)
(***************************************************************************)
EXTENDS Integers, Sequences, FiniteSets, TLC

(***************************************************************************)
(* Bounds of the model.                                                    *)
(***************************************************************************)
\* gRPC handler goroutines that may run a batch at the same time
NumHandlers == 2
\* claims received in one run, over all requests
MaxClaims == 3
\* injected I/O failures in one run
MaxFaults == 1
\* times the API server becomes unreachable in one run
MaxOutages == 2
\* resource versions the API server hands out in one run
MaxVersion == 3

Handlers == 1 .. NumHandlers

(***************************************************************************)
(* Program constants.                                                      *)
(***************************************************************************)
resourceFileName == "file1"
cdiDir == "/var/run/cdi"
cdiVersion == "0.5.0"
\* the configuration the driver is constructed with (the flags' defaults)
driverName == "file.dra.example.com"
resourceDir == "/etc/dra"
\* claim.Uid[:8]
UidPrefixLen == 8
\* the zero value of sync.Mutex: unlocked
Unlocked == 0

\* filepath.Join(d.resourceDir, resourceFileName)
filePath == <<resourceDir, resourceFileName>>
\* filepath.Join(cdiDir, "<driver>-file-<resourceFileName>.json")
cdiFilePath == <<cdiDir, driverName, "-file-", resourceFileName, ".json">>

NL == "\n"

(***************************************************************************)
(* The claims a request may name (drapb.Claim: Uid, Name).                 *)
(***************************************************************************)
ClaimA == [Uid |-> <<"a","b","c","1","2","3">>,
           Name |-> <<"c","l","a","i","m","-","A">>]
ClaimB == [Uid |-> <<"u","i","d","-","0","0","0","2","x">>, Name |-> <<>>]
ClaimS == [Uid |-> <<"s","7">>, Name |-> <<>>]
Claims == {ClaimA, ClaimB, ClaimS}
\* the claims extractPodName has a label for: a name, or a uid of 8 characters
\* or more
LabelledClaims == {ClaimA, ClaimB}
Uids == {c.Uid : c \in Claims}

(***************************************************************************)
(* Files: os.WriteFile, os.ReadFile, os.Remove.                            *)
(***************************************************************************)
NoFile == [exists |-> FALSE, data |-> <<>>]
FileOf(d) == [exists |-> TRUE, data |-> d]

\* a write that appends to the file's content
WriteFile_Append(f, content, mayFail) ==
    {<<FALSE, FileOf(f.data \o content)>>}
        \cup (IF mayFail THEN {<<TRUE, f>>, <<TRUE, FileOf(<<>>)>>} ELSE {})

\* os.WriteFile(path, content): the outcomes <<failed, file afterwards>>.
\* It creates the file or truncates it and then writes: a failure leaves the
\* file as it was (open failed) or created/truncated and empty (write failed).
WriteFile(f, content, mayFail) ==
    {<<FALSE, FileOf(content)>>}
        \cup (IF mayFail THEN {<<TRUE, f>>, <<TRUE, FileOf(<<>>)>>} ELSE {})

\* os.ReadFile(path): the outcomes [err, data]; err is "" (none),
\* "notexist" (os.IsNotExist) or "io" (any other error).
ReadFile(f, mayFail) ==
    (IF f.exists THEN {[err |-> "", data |-> f.data]}
                 ELSE {[err |-> "notexist", data |-> <<>>]})
        \cup (IF mayFail THEN {[err |-> "io", data |-> <<>>]} ELSE {})

\* os.Remove(path): the outcomes [err, file afterwards].
Remove(f, mayFail) ==
    (IF f.exists THEN {[err |-> "", file |-> NoFile]}
                 ELSE {[err |-> "notexist", file |-> f]})
        \cup (IF mayFail THEN {[err |-> "io", file |-> f]} ELSE {})

(***************************************************************************)
(* Go maps.                                                                *)
(***************************************************************************)
EmptyMap == [k \in {} |-> <<>>]
MapPut(m, k, v) == [x \in (DOMAIN m) \cup {k} |-> IF x = k THEN v ELSE m[x]]
MapDelete(m, k) == [x \in (DOMAIN m) \ {k} |-> m[x]]

(***************************************************************************)
(* package strings                                                         *)
(***************************************************************************)
\* strings.Split(s, "\n"): the pieces between newlines; Split("") is [""]
RECURSIVE SplitFrom(_, _, _)
SplitFrom(s, i, cur) ==
    IF i > Len(s) THEN <<cur>>
    ELSE IF s[i] = NL THEN <<cur>> \o SplitFrom(s, i + 1, <<>>)
    ELSE SplitFrom(s, i + 1, Append(cur, s[i]))
Split(s) == SplitFrom(s, 1, <<>>)

\* strings.Join(elems, "\n")
RECURSIVE Join(_)
Join(elems) ==
    IF Len(elems) = 0 THEN <<>>
    ELSE IF Len(elems) = 1 THEN elems[1]
    ELSE elems[1] \o <<NL>> \o Join(Tail(elems))

\* strings.HasSuffix(s, "\n")
HasSuffixNL(s) == Len(s) > 0 /\ s[Len(s)] = NL

(***************************************************************************)
(* Driver.extractPodName                                                   *)
(***************************************************************************)
PodUsingPrefix == <<"p","o","d","-","u","s","i","n","g","-">>
PodPrefix == <<"p","o","d","-">>

\* claim.Uid[:8] panics (slice bounds out of range) on a shorter uid
extractPodNamePanics(claim) ==
    claim.Name = <<>> /\ Len(claim.Uid) < UidPrefixLen

\* a label that is the claim's name alone
extractPodName_Plain(claim) ==
    IF claim.Name # <<>> THEN claim.Name
    ELSE PodPrefix \o SubSeq(claim.Uid, 1, UidPrefixLen)

extractPodName(claim) ==
    IF claim.Name # <<>> THEN PodUsingPrefix \o claim.Name
    ELSE PodPrefix \o SubSeq(claim.Uid, 1, UidPrefixLen)

(***************************************************************************)
(* The resource file's records                                             *)
(***************************************************************************)
\* fmt.Sprintf("%s (claim: %s)", podName, claimUID)
searchPattern(podName, claimUID) ==
    podName \o <<" ","(","c","l","a","i","m",":"," ">> \o claimUID \o <<")">>

\* prepareResource: content := fmt.Sprintf("%s (claim: %s)\n", podName, claimUID)
prepareContent(podName, claimUID) ==
    searchPattern(podName, claimUID) \o <<NL>>

\* unprepareResource: the lines kept by the filter loop
RECURSIVE FilterLines(_, _)
FilterLines(lines, pattern) ==
    IF Len(lines) = 0 THEN <<>>
    ELSE IF lines[1] # <<>> /\ lines[1] # pattern
         THEN <<lines[1]>> \o FilterLines(Tail(lines), pattern)
         ELSE FilterLines(Tail(lines), pattern)

\* a rewrite that keeps no line
unprepareContent_Empty(data, podName, claimUID) == <<>>

\* unprepareResource: newContent, from the data read
unprepareContent(data, podName, claimUID) ==
    LET newLines == FilterLines(Split(data), searchPattern(podName, claimUID))
        joined == Join(newLines)
    IN  IF joined # <<>> /\ ~HasSuffixNL(joined) THEN joined \o <<NL>> ELSE joined

(***************************************************************************)
(* Driver.createCDISpec / Driver.deleteCDISpec                             *)
(***************************************************************************)
\* the cdiSpec document createCDISpec marshals
cdiSpecDoc ==
    [cdiVersion |-> cdiVersion,
     kind |-> <<driverName, "/file">>,
     devices |-> << [name |-> resourceFileName,
                     containerEdits |->
                        [mounts |-> << [hostPath |-> filePath,
                                        containerPath |-> filePath,
                                        options |-> <<"ro", "bind">>] >>]] >>]

\* createCDISpec(claimUID): the outcomes [err, file afterwards] on the file at
\* cdiFilePath; the file's data is the sequence of documents in it
createCDISpec(claimUID, f, mayFail) ==
    {[err |-> IF o[1] THEN "failed to write CDI spec" ELSE "", file |-> o[2]]
        : o \in WriteFile(f, <<cdiSpecDoc>>, mayFail)}
    \cup (IF mayFail
          THEN {[err |-> "failed to create CDI directory", file |-> f]}
          ELSE {})

\* deleteCDISpec(claimUID): the outcomes [err, file afterwards]
deleteCDISpec(claimUID, f, mayFail) ==
    {[err |-> IF o.err = "io" THEN "failed to delete CDI spec" ELSE "",
      file |-> o.file] : o \in Remove(f, mayFail)}

\* cdiDeviceID := fmt.Sprintf("%s/file=%s", d.driverName, resourceFileName)
cdiDeviceID == <<driverName, "/file=", resourceFileName>>

\* drapb.NodePrepareResourceResponse
PrepareError(e) == [Devices |-> <<>>, Error |-> e]
PrepareDevices ==
    [Devices |-> << [PoolName |-> "default",
                     DeviceName |-> resourceFileName,
                     CdiDeviceIds |-> <<cdiDeviceID>>] >>,
     Error |-> ""]
\* drapb.NodeUnprepareResourceResponse
UnprepareResult(e) == [Error |-> e]

(***************************************************************************)
(* ResourcePublisher: the ResourceSlice it publishes and the API server's  *)
(* ResourceSlices interface it calls.                                      *)
(***************************************************************************)
\* --node-name / NODE_NAME of the node the driver runs on
nodeName == "node-1"
\* the resource name main passes to NewResourcePublisher
resourceName == "file1"
\* fmt.Sprintf("%s-%s", p.nodeName, p.driverName)
sliceName == <<nodeName, "-", driverName>>
poolName == nodeName
PoolGeneration == 1
PoolSliceCount == 1

\* the ResourceVersion of an object the API server has not stored
NoVersion == 0

\* the ResourceSlice PublishResources builds
slice ==
    [Name |-> sliceName,
     ResourceVersion |-> NoVersion,
     Driver |-> driverName,
     NodeName |-> nodeName,
     Pool |-> [Name |-> poolName,
               Generation |-> PoolGeneration,
               ResourceSliceCount |-> PoolSliceCount],
     Devices |-> << [Name |-> resourceName,
                     Attributes |->
                         ("file.dra.example.com/type" :> <<"file">>)
                      @@ ("file.dra.example.com/filename" :> <<resourceName>>)
                      @@ ("file.dra.example.com/path" :> <<"/etc/dra/", resourceName>>)] >>]

NoError == ""
AlreadyExists == "AlreadyExists"
NotFound == "NotFound"
Conflict == "Conflict"
\* the request did not get an answer: the server is unreachable, or the
\* request's context is done
Unavailable == "Unavailable"

\* the stored objects named name
Named(store, name) == {o \in store : o.Name = name}

\* a server that stores what it is given without looking for the name
Create_Duplicates(store, ver, obj, ok) ==
    IF ~ok THEN [err |-> Unavailable, store |-> store, version |-> ver]
    ELSE [err |-> NoError,
          store |-> store \cup {[obj EXCEPT !.ResourceVersion = ver + 1]},
          version |-> ver + 1]

\* ResourceSlices().Create: stores obj under a new resource version unless an
\* object of that name is stored
Create(store, ver, obj, ok) ==
    IF ~ok THEN [err |-> Unavailable, store |-> store, version |-> ver]
    ELSE IF Named(store, obj.Name) # {}
    THEN [err |-> AlreadyExists, store |-> store, version |-> ver]
    ELSE [err |-> NoError,
          store |-> store \cup {[obj EXCEPT !.ResourceVersion = ver + 1]},
          version |-> ver + 1]

\* ResourceSlices().Get
Get(store, name, ok) ==
    IF ~ok THEN [err |-> Unavailable, obj |-> slice]
    ELSE IF Named(store, name) = {} THEN [err |-> NotFound, obj |-> slice]
    ELSE [err |-> NoError, obj |-> CHOOSE o \in Named(store, name) : TRUE]

\* ResourceSlices().Update: replaces the stored object of obj's name if obj
\* carries its resource version
Update(store, ver, obj, ok) ==
    IF ~ok THEN [err |-> Unavailable, store |-> store, version |-> ver]
    ELSE IF Named(store, obj.Name) = {}
    THEN [err |-> NotFound, store |-> store, version |-> ver]
    ELSE IF \A o \in Named(store, obj.Name) : o.ResourceVersion # obj.ResourceVersion
    THEN [err |-> Conflict, store |-> store, version |-> ver]
    ELSE [err |-> NoError,
          store |-> (store \ Named(store, obj.Name))
                        \cup {[obj EXCEPT !.ResourceVersion = ver + 1]},
          version |-> ver + 1]

\* ResourceSlices().Delete
Delete(store, name, ok) ==
    IF ~ok THEN [err |-> Unavailable, store |-> store]
    ELSE IF Named(store, name) = {} THEN [err |-> NotFound, store |-> store]
    ELSE [err |-> NoError, store |-> store \ Named(store, name)]

\* what PublishResources and UnpublishResources return
NoResult == [op |-> "none", err |-> ""]
Published(e) == [op |-> "publish", err |-> e]
Unpublished(e) == [op |-> "unpublish", err |-> e]

(***************************************************************************)
(* State                                                                   *)
(***************************************************************************)
VARIABLES
    file,           \* the resource file at filePath
    podResources,   \* Driver.podResources: claimUID -> podName
    cdiFile,        \* the CDI spec file at cdiFilePath
    mu,             \* Driver.mu: Unlocked or the handler holding it
    crashed,        \* the process died of a panic in a handler
    pc,             \* each handler goroutine's position
    req,            \* each handler's req.Claims
    idx,            \* each handler's position in the range loop over req.Claims
    resp,           \* each handler's resp.Claims
    podName,        \* each handler's local podName
    data,           \* unprepareResource's local data
    inputs,         \* the claims the node agent may name in a request
    ncalls,         \* requests received so far
    nclaims,        \* claims received so far, over all requests
    faults,         \* I/O failures, and removals of the resource file by others, so far
    held,           \* the claim uids whose latest result was a successful prepare
    slices,         \* the API server's ResourceSlices
    version,        \* the latest resource version the API server handed out
    reachable,      \* the API server answers requests
    outages,        \* times the API server became unreachable so far
    cancelled,      \* main's ctx is done
    exited,         \* the process has exited
    pubPc,          \* the position of the StartPublishing goroutine
    createErr,      \* PublishResources' local err, of Create
    existing,       \* PublishResources' local existing.ResourceVersion
    result,         \* what the publisher's latest call returned
    unpublishCalls, \* calls of UnpublishResources so far
    everFailed,     \* some PublishResources call has returned an error
    srvPc,          \* the position of each server's Start
    sock            \* the file at each server's socket path

drvVars == <<file, podResources, cdiFile, mu, crashed, pc, req, idx, resp,
             podName, data, inputs, ncalls, nclaims, faults, held>>

pubVars == <<slices, version, reachable, outages, cancelled, exited, pubPc,
             createErr, existing, result, unpublishCalls, everFailed>>

netVars == <<srvPc, sock>>

vars == <<drvVars, pubVars, netVars>>

\* the lifecycle server (Driver.Start, on pluginSocket) and the registration
\* server (RegistrationServer.Start, on registrationSocket)
Servers == {"plugin", "registration"}

\* both servers have set up their sockets and serve
Listening ==
    /\ srvPc = [s \in Servers |-> "serving"]
    /\ sock = [s \in Servers |-> FileOf(<<>>)]

\* the requests of at most n claims (req.Claims)
Requests(n) == UNION {[1 .. k -> inputs] : k \in 1 .. n}

MayFail == faults < MaxFaults

\* the driver after New, no request received; the resource file is absent or
\* empty
Start ==
    /\ file \in {NoFile, FileOf(<<>>)}
    /\ podResources = EmptyMap
    /\ cdiFile = NoFile
    /\ mu = Unlocked
    /\ crashed = FALSE
    /\ pc = [t \in Handlers |-> "idle"]
    /\ req = [t \in Handlers |-> <<>>]
    /\ idx = [t \in Handlers |-> 0]
    /\ resp = [t \in Handlers |-> EmptyMap]
    /\ podName = [t \in Handlers |-> <<>>]
    /\ data = [t \in Handlers |-> <<>>]
    /\ ncalls = 0
    /\ nclaims = 0
    /\ faults = 0
    /\ held = {}
    /\ reachable \in BOOLEAN
    /\ outages = 0
    /\ cancelled = FALSE
    /\ exited = FALSE
    /\ pubPc = "create"
    /\ createErr = NoError
    /\ existing = NoVersion
    /\ result = NoResult
    /\ unpublishCalls = 0
    /\ everFailed = FALSE

\* the node agent names claims that have a label
Init == Start /\ Listening /\ inputs = LabelledClaims /\ slices = {} /\ version = 0 /\ reachable

\* the node agent names any claim
InitAny == Start /\ Listening /\ inputs = Claims /\ slices = {} /\ version = 0 /\ reachable

Claim(t) == req[t][idx[t]]

\* the range loop's next iteration, or the return after the last claim
NextPc(t, loop, done) == IF idx[t] < Len(req[t]) THEN loop ELSE done

\* a handler goroutine is free when it runs no request; gRPC starts one per
\* request, and the goroutines being alike, a request takes the first free one
Free(t) == pc[t] = "idle"
Accepts(t) == Free(t) /\ \A s \in Handlers : s < t => ~Free(s)

\* a handler that has finished its loop returns before any other goroutine's
\* next step: the return touches only the handler's own locals, so taking it
\* first loses no interleaving of the shared state
Returning(t) == pc[t] \in {"p_done", "u_done"}
Running == ~crashed /\ \A s \in Handlers : ~Returning(s)

\* resp.Claims[claim.Uid] = r, then continue with the next claim (the
\* iteration's podName goes out of scope)
SetResult(t, r, op, loop, done) ==
    /\ resp' = [resp EXCEPT ![t] = MapPut(resp[t], Claim(t).Uid, r)]
    /\ held' = IF op = "prepared" THEN held \cup {Claim(t).Uid}
                                   ELSE held \ {Claim(t).Uid}
    /\ idx' = [idx EXCEPT ![t] = IF idx[t] < Len(req[t]) THEN idx[t] + 1 ELSE idx[t]]
    /\ pc' = [pc EXCEPT ![t] = NextPc(t, loop, done)]
    /\ podName' = [podName EXCEPT ![t] = <<>>]

Fault(failed) == faults' = IF failed THEN faults + 1 ELSE faults

\* a lock that does not wait for its holder
Lock_NoWait(t) == mu' = t

\* d.mu.Lock(): blocks until the mutex is free
Lock(t) == mu = Unlocked /\ mu' = t

\* defer d.mu.Unlock()
Unlock(t) == mu' = Unlocked

(***************************************************************************)
(* Driver.NodePrepareResources                                             *)
(***************************************************************************)
\* a NodePrepareResources request arrives
NodePrepareResources(t) ==
    /\ Running /\ Accepts(t)
    /\ \E claims \in Requests(MaxClaims - nclaims) :
        /\ nclaims' = nclaims + Len(claims)
        /\ ncalls' = ncalls + 1
        /\ req' = [req EXCEPT ![t] = claims]
    /\ idx' = [idx EXCEPT ![t] = 1]
    /\ resp' = [resp EXCEPT ![t] = EmptyMap]
    /\ pc' = [pc EXCEPT ![t] = "p_lock"]
    /\ UNCHANGED <<file, podResources, cdiFile, mu, crashed, podName, data,
                   faults, held, inputs>>
    /\ UNCHANGED pubVars
    /\ UNCHANGED netVars

\* NodePrepareResources: podName := d.extractPodName(claim), which may panic,
\* then prepareResource: d.mu.Lock()
PrepareLock(t) ==
    /\ Running /\ pc[t] = "p_lock"
    /\ IF extractPodNamePanics(Claim(t))
       THEN /\ crashed' = TRUE
            /\ UNCHANGED <<pc, podName, mu>>
       ELSE /\ Lock(t)
            /\ podName' = [podName EXCEPT ![t] = extractPodName(Claim(t))]
            /\ pc' = [pc EXCEPT ![t] = "p_write"]
            /\ UNCHANGED crashed
    /\ UNCHANGED <<file, podResources, cdiFile, req, idx, resp, data,
                   ncalls, nclaims, faults, held, inputs>>
    /\ UNCHANGED pubVars
    /\ UNCHANGED netVars

\* prepareResource, holding the lock: write the file, track the pod, unlock
prepareResource(t) ==
    /\ Running /\ pc[t] = "p_write"
    /\ \E o \in WriteFile(file, prepareContent(podName[t], Claim(t).Uid), MayFail) :
        /\ file' = o[2]
        /\ Fault(o[1])
        /\ IF o[1]
           THEN /\ SetResult(t, PrepareError("failed to write resource file"),
                             "prepare_failed", "p_lock", "p_done")
                /\ UNCHANGED podResources
           ELSE /\ podResources' = MapPut(podResources, Claim(t).Uid, podName[t])
                /\ pc' = [pc EXCEPT ![t] = "p_cdi"]
                /\ UNCHANGED <<resp, held, idx, podName>>
    /\ Unlock(t)
    /\ UNCHANGED <<cdiFile, crashed, req, data, ncalls, nclaims, inputs>>
    /\ UNCHANGED pubVars
    /\ UNCHANGED netVars

\* NodePrepareResources: createCDISpec and the claim's result
PrepareCDI(t) ==
    /\ Running /\ pc[t] = "p_cdi"
    /\ \E o \in createCDISpec(Claim(t).Uid, cdiFile, MayFail) :
        /\ cdiFile' = o.file
        /\ Fault(o.err # "")
        /\ IF o.err # ""
           THEN SetResult(t, PrepareError(o.err), "prepare_failed", "p_lock", "p_done")
           ELSE SetResult(t, PrepareDevices, "prepared", "p_lock", "p_done")
    /\ UNCHANGED <<file, podResources, mu, crashed, req, data, ncalls, nclaims, inputs>>
    /\ UNCHANGED pubVars
    /\ UNCHANGED netVars

(***************************************************************************)
(* Driver.NodeUnprepareResources                                           *)
(***************************************************************************)
\* a NodeUnprepareResources request arrives
NodeUnprepareResources(t) ==
    /\ Running /\ Accepts(t)
    /\ \E claims \in Requests(MaxClaims - nclaims) :
        /\ nclaims' = nclaims + Len(claims)
        /\ ncalls' = ncalls + 1
        /\ req' = [req EXCEPT ![t] = claims]
    /\ idx' = [idx EXCEPT ![t] = 1]
    /\ resp' = [resp EXCEPT ![t] = EmptyMap]
    /\ pc' = [pc EXCEPT ![t] = "u_lock"]
    /\ UNCHANGED <<file, podResources, cdiFile, mu, crashed, podName, data,
                   faults, held, inputs>>
    /\ UNCHANGED pubVars
    /\ UNCHANGED netVars

\* unprepareResource: d.mu.Lock()
UnprepareLock(t) ==
    /\ Running /\ pc[t] = "u_lock"
    /\ Lock(t)
    /\ pc' = [pc EXCEPT ![t] = "u_read"]
    /\ UNCHANGED <<file, podResources, cdiFile, crashed, req, idx, resp,
                   podName, data, ncalls, nclaims, faults, held, inputs>>
    /\ UNCHANGED pubVars
    /\ UNCHANGED netVars

\* an unknown claim reported as an error
unprepareNotTracked_Error(t) ==
    /\ Unlock(t)
    /\ SetResult(t, UnprepareResult("no tracked pod"), "unprepare_failed",
                 "u_lock", "u_done")
    /\ UNCHANGED <<data, faults>>

\* unprepareResource: no tracked pod for the claim, return nil
unprepareNotTracked(t) ==
    /\ Unlock(t)
    /\ pc' = [pc EXCEPT ![t] = "u_cdi"]
    /\ UNCHANGED <<podName, data, resp, held, idx, faults>>

\* unprepareResource, holding the lock: look the claim up and read the file
unprepareResourceRead(t) ==
    /\ Running /\ pc[t] = "u_read"
    /\ IF Claim(t).Uid \notin DOMAIN podResources
       THEN unprepareNotTracked(t)
       ELSE \E o \in ReadFile(file, MayFail) :
            /\ Fault(o.err = "io")
            /\ IF o.err = "notexist"
               THEN /\ Unlock(t)
                    /\ pc' = [pc EXCEPT ![t] = "u_cdi"]
                    /\ UNCHANGED <<podName, data, resp, held, idx>>
               ELSE IF o.err = "io"
               THEN /\ Unlock(t)
                    /\ SetResult(t, UnprepareResult("failed to read resource file"),
                                 "unprepare_failed", "u_lock", "u_done")
                    /\ UNCHANGED data
               ELSE /\ podName' = [podName EXCEPT ![t] = podResources[Claim(t).Uid]]
                    /\ data' = [data EXCEPT ![t] = o.data]
                    /\ pc' = [pc EXCEPT ![t] = "u_write"]
                    /\ UNCHANGED <<mu, resp, held, idx>>
    /\ UNCHANGED <<file, podResources, cdiFile, crashed, req, ncalls, nclaims, inputs>>
    /\ UNCHANGED pubVars
    /\ UNCHANGED netVars

\* the pod untracked before the write's error is looked at
unprepareWriteFailed_Untracks(t) ==
    /\ SetResult(t, UnprepareResult("failed to write resource file"),
                 "unprepare_failed", "u_lock", "u_done")
    /\ podResources' = MapDelete(podResources, Claim(t).Uid)

\* unprepareResource: the write failed, return the error (the pod stays
\* tracked)
unprepareWriteFailed(t) ==
    /\ SetResult(t, UnprepareResult("failed to write resource file"),
                 "unprepare_failed", "u_lock", "u_done")
    /\ UNCHANGED podResources

\* unprepareResource, holding the lock: write the file back, untrack, unlock
unprepareResourceWrite(t) ==
    /\ Running /\ pc[t] = "u_write"
    /\ \E o \in WriteFile(file, unprepareContent(data[t], podName[t], Claim(t).Uid),
                          MayFail) :
        /\ file' = o[2]
        /\ Fault(o[1])
        /\ IF o[1]
           THEN unprepareWriteFailed(t)
           ELSE /\ podResources' = MapDelete(podResources, Claim(t).Uid)
                /\ pc' = [pc EXCEPT ![t] = "u_cdi"]
                /\ podName' = [podName EXCEPT ![t] = <<>>]
                /\ UNCHANGED <<resp, held, idx>>
    /\ data' = [data EXCEPT ![t] = <<>>]
    /\ Unlock(t)
    /\ UNCHANGED <<cdiFile, crashed, req, ncalls, nclaims, inputs>>
    /\ UNCHANGED pubVars
    /\ UNCHANGED netVars

\* a handler that puts the error of deleteCDISpec in the claim's result
UnprepareCDI_Surfaces(t) ==
    /\ Running /\ pc[t] = "u_cdi"
    /\ \E o \in deleteCDISpec(Claim(t).Uid, cdiFile, MayFail) :
        /\ cdiFile' = o.file
        /\ Fault(o.err # "")
        /\ SetResult(t, UnprepareResult(o.err), "unprepared", "u_lock", "u_done")
    /\ UNCHANGED <<file, podResources, mu, crashed, req, data, ncalls, nclaims, inputs>>
    /\ UNCHANGED pubVars
    /\ UNCHANGED netVars

\* NodeUnprepareResources: deleteCDISpec, whose error is only logged, and the
\* claim's result
UnprepareCDI(t) ==
    /\ Running /\ pc[t] = "u_cdi"
    /\ \E o \in deleteCDISpec(Claim(t).Uid, cdiFile, MayFail) :
        /\ cdiFile' = o.file
        /\ Fault(o.err # "")
    /\ SetResult(t, UnprepareResult(""), "unprepared", "u_lock", "u_done")
    /\ UNCHANGED <<file, podResources, mu, crashed, req, data, ncalls, nclaims, inputs>>
    /\ UNCHANGED pubVars
    /\ UNCHANGED netVars

\* return resp, nil: the response is delivered and the goroutine ends
Return(t) ==
    /\ ~crashed /\ Returning(t)
    /\ pc' = [pc EXCEPT ![t] = "idle"]
    /\ req' = [req EXCEPT ![t] = <<>>]
    /\ idx' = [idx EXCEPT ![t] = 0]
    /\ resp' = [resp EXCEPT ![t] = EmptyMap]
    /\ UNCHANGED <<file, podResources, cdiFile, mu, crashed, podName, data,
                   ncalls, nclaims, faults, held, inputs>>
    /\ UNCHANGED pubVars
    /\ UNCHANGED netVars

(***************************************************************************)
(* ResourcePublisher.StartPublishing and main's run                        *)
(***************************************************************************)
\* a request under main's ctx gets its answer if the server is reachable and
\* ctx is not done
CtxOK == reachable /\ ~cancelled

\* a request under cleanupCtx (context.Background() with a timeout, so not done
\* when ctx is) gets its answer if the server is reachable within the timeout
CleanupCtxOK == reachable

\* if err != nil after Create: try update
FallsBack(err) == err # NoError

\* a loop that a failed PublishResources call ends
PublishReturns_Fatal(r) ==
    /\ result' = r
    /\ everFailed' = (everFailed \/ r.err # NoError)
    /\ createErr' = NoError
    /\ existing' = NoVersion
    /\ pubPc' = IF r.err # NoError THEN "stopped" ELSE "select"

\* a PublishResources call returns r to StartPublishing, which logs an error
\* and goes on to the select
PublishReturns(r) ==
    /\ result' = r
    /\ everFailed' = (everFailed \/ r.err # NoError)
    /\ createErr' = NoError
    /\ existing' = NoVersion
    /\ pubPc' = "select"

\* PublishResources: ResourceSlices().Create(ctx, slice)
PublishCreate ==
    /\ ~exited /\ ~crashed /\ pubPc = "create"
    /\ LET r == Create(slices, version, slice, CtxOK) IN
        /\ slices' = r.store
        /\ version' = r.version
        /\ IF FallsBack(r.err)
           THEN /\ createErr' = r.err
                /\ pubPc' = "get"
                /\ UNCHANGED <<result, everFailed, existing>>
           ELSE PublishReturns(Published(NoError))
    /\ UNCHANGED <<reachable, outages, cancelled, exited, unpublishCalls>>
    /\ UNCHANGED drvVars
    /\ UNCHANGED netVars

\* PublishResources: ResourceSlices().Get(ctx, sliceName)
PublishGet ==
    /\ ~exited /\ ~crashed /\ pubPc = "get"
    /\ LET r == Get(slices, sliceName, CtxOK) IN
        IF r.err # NoError
        THEN PublishReturns(Published("failed to create or get ResourceSlice"))
        ELSE /\ existing' = r.obj.ResourceVersion
             /\ pubPc' = "update"
             /\ UNCHANGED <<result, everFailed, createErr>>
    /\ UNCHANGED <<slices, version, reachable, outages, cancelled, exited,
                   unpublishCalls>>
    /\ UNCHANGED drvVars
    /\ UNCHANGED netVars

\* PublishResources: slice.ResourceVersion = existing.ResourceVersion, then
\* ResourceSlices().Update(ctx, slice)
PublishUpdate ==
    /\ ~exited /\ ~crashed /\ pubPc = "update"
    /\ LET r == Update(slices, version,
                       [slice EXCEPT !.ResourceVersion = existing], CtxOK) IN
        /\ slices' = r.store
        /\ version' = r.version
        /\ PublishReturns(Published(IF r.err # NoError
                                    THEN "failed to update ResourceSlice"
                                    ELSE NoError))
    /\ UNCHANGED <<reachable, outages, cancelled, exited, unpublishCalls>>
    /\ UNCHANGED drvVars
    /\ UNCHANGED netVars

\* select: case <-ticker.C, which calls PublishResources. A select with both
\* channels ready may take either case.
Tick ==
    /\ ~exited /\ ~crashed /\ pubPc = "select"
    /\ version < MaxVersion
    /\ pubPc' = "create"
    /\ UNCHANGED <<slices, version, reachable, outages, cancelled, exited,
                   createErr, existing, result, unpublishCalls, everFailed>>
    /\ UNCHANGED drvVars
    /\ UNCHANGED netVars

\* a loop that unpublishes without waiting for ctx
Done_Uncancelled ==
    /\ ~exited /\ ~crashed /\ pubPc = "select"
    /\ pubPc' = "delete"
    /\ unpublishCalls' = unpublishCalls + 1
    /\ UNCHANGED <<slices, version, reachable, outages, cancelled, exited,
                   createErr, existing, result, everFailed>>
    /\ UNCHANGED drvVars
    /\ UNCHANGED netVars

\* select: case <-ctx.Done(), which makes cleanupCtx and calls
\* UnpublishResources
Done ==
    /\ ~exited /\ ~crashed /\ pubPc = "select"
    /\ cancelled
    /\ pubPc' = "delete"
    /\ unpublishCalls' = unpublishCalls + 1
    /\ UNCHANGED <<slices, version, reachable, outages, cancelled, exited,
                   createErr, existing, result, everFailed>>
    /\ UNCHANGED drvVars
    /\ UNCHANGED netVars

\* UnpublishResources: ResourceSlices().Delete(cleanupCtx, sliceName); then
\* StartPublishing logs an error, cancels cleanupCtx and returns
UnpublishResources ==
    /\ ~exited /\ ~crashed /\ pubPc = "delete"
    /\ LET r == Delete(slices, sliceName, CleanupCtxOK) IN
        /\ slices' = r.store
        /\ result' = Unpublished(IF r.err # NoError
                                 THEN "failed to delete ResourceSlice"
                                 ELSE NoError)
    /\ pubPc' = "stopped"
    /\ UNCHANGED <<version, reachable, outages, cancelled, exited, createErr,
                   existing, unpublishCalls, everFailed>>
    /\ UNCHANGED drvVars
    /\ UNCHANGED netVars

\* main's signal goroutine: sig := <-sigCh; cancel()
Signal ==
    /\ ~exited /\ ~crashed /\ ~cancelled
    /\ cancelled' = TRUE
    /\ UNCHANGED <<slices, version, reachable, outages, exited, pubPc,
                   createErr, existing, result, unpublishCalls, everFailed>>
    /\ UNCHANGED drvVars
    /\ UNCHANGED netVars

\* d.Start: case <-ctx.Done(): GracefulStop waits for the handlers that are
\* running and Start returns nil; run prints and returns, main returns and the
\* process exits with its goroutines
MainReturns ==
    /\ ~exited /\ ~crashed /\ cancelled
    /\ srvPc["plugin"] = "serving"
    /\ \A t \in Handlers : Free(t)
    /\ exited' = TRUE
    /\ UNCHANGED <<slices, version, reachable, outages, cancelled, pubPc,
                   createErr, existing, result, unpublishCalls, everFailed>>
    /\ UNCHANGED drvVars
    /\ UNCHANGED netVars

\* d.Start returns the error of Serve: klog.Fatalf ends the process
DriverFailed ==
    /\ ~exited /\ ~crashed /\ ~cancelled
    /\ srvPc["plugin"] = "serving"
    /\ exited' = TRUE
    /\ UNCHANGED <<slices, version, reachable, outages, cancelled, pubPc,
                   createErr, existing, result, unpublishCalls, everFailed>>
    /\ UNCHANGED drvVars
    /\ UNCHANGED netVars

\* the API server stops answering
BrokerDown ==
    /\ reachable /\ outages < MaxOutages
    /\ reachable' = FALSE
    /\ outages' = outages + 1
    /\ UNCHANGED <<slices, version, cancelled, exited, pubPc, createErr,
                   existing, result, unpublishCalls, everFailed>>
    /\ UNCHANGED drvVars
    /\ UNCHANGED netVars

\* the API server answers again
BrokerUp ==
    /\ ~reachable
    /\ reachable' = TRUE
    /\ UNCHANGED <<slices, version, outages, cancelled, exited, pubPc,
                   createErr, existing, result, unpublishCalls, everFailed>>
    /\ UNCHANGED drvVars
    /\ UNCHANGED netVars

Next ==
    \E t \in Handlers :
        \/ NodePrepareResources(t)
        \/ PrepareLock(t)
        \/ prepareResource(t)
        \/ PrepareCDI(t)
        \/ NodeUnprepareResources(t)
        \/ UnprepareLock(t)
        \/ unprepareResourceRead(t)
        \/ unprepareResourceWrite(t)
        \/ UnprepareCDI(t)
        \/ Return(t)

\* the steps of the StartPublishing goroutine
PublisherStep ==
    \/ PublishCreate
    \/ PublishGet
    \/ PublishUpdate
    \/ Tick
    \/ Done
    \/ UnpublishResources

NextPub ==
    \/ PublisherStep
    \/ Signal
    \/ MainReturns
    \/ DriverFailed
    \/ BrokerDown
    \/ BrokerUp

Spec == Init /\ [][Next]_vars

SpecAny == InitAny /\ [][Next]_vars

\* the node agent names one claim only, in all its requests
InitOneClaim ==
    Start /\ Listening /\ inputs = {ClaimA} /\ slices = {} /\ version = 0 /\ reachable

SpecOneClaim == InitOneClaim /\ [][Next]_vars

\* somebody else removes the resource file from the resource directory (a
\* host path)
ResourceFileRemoved ==
    /\ Running /\ file.exists /\ MayFail
    /\ file' = NoFile
    /\ faults' = faults + 1
    /\ UNCHANGED <<podResources, cdiFile, mu, crashed, pc, req, idx, resp,
                   podName, data, inputs, ncalls, nclaims, held>>
    /\ UNCHANGED pubVars
    /\ UNCHANGED netVars

NextEnv == Next \/ ResourceFileRemoved

\* the driver in a resource directory that others may change
SpecEnv == Init /\ [][NextEnv]_vars

(***************************************************************************)
(* Driver.Start and RegistrationServer.Start: setting up the socket        *)
(***************************************************************************)
\* Start returns an error: main ends the process with klog.Fatalf when it is
\* d.Start, and logs it with klog.Errorf, in the goroutine that called it,
\* when it is regServer.Start
SetupFailed(s) ==
    /\ srvPc' = [srvPc EXCEPT ![s] = "failed"]
    /\ exited' = IF s = "plugin" THEN TRUE ELSE exited

\* os.MkdirAll(socketDir, 0755)
StartMkdirAll(s) ==
    /\ ~exited /\ srvPc[s] = "mkdir"
    /\ \/ srvPc' = [srvPc EXCEPT ![s] = "remove"] /\ UNCHANGED exited
       \/ SetupFailed(s)
    /\ UNCHANGED <<sock, slices, version, reachable, outages, cancelled, pubPc,
                   createErr, existing, result, unpublishCalls, everFailed>>
    /\ UNCHANGED drvVars

\* os.Remove of the socket path: an error other than IsNotExist is returned
StartRemove(s) ==
    /\ ~exited /\ srvPc[s] = "remove"
    /\ \E o \in Remove(sock[s], TRUE) :
        /\ sock' = [sock EXCEPT ![s] = o.file]
        /\ IF o.err = "io"
           THEN SetupFailed(s)
           ELSE srvPc' = [srvPc EXCEPT ![s] = "listen"] /\ UNCHANGED exited
    /\ UNCHANGED <<slices, version, reachable, outages, cancelled, pubPc,
                   createErr, existing, result, unpublishCalls, everFailed>>
    /\ UNCHANGED drvVars

\* net.Listen("unix", path), which makes the socket file and fails when the
\* path exists; then grpc.NewServer, Serve in a goroutine, and the select
StartListen(s) ==
    /\ ~exited /\ srvPc[s] = "listen"
    /\ \/ /\ ~sock[s].exists
          /\ sock' = [sock EXCEPT ![s] = FileOf(<<>>)]
          /\ srvPc' = [srvPc EXCEPT ![s] = "serving"]
          /\ UNCHANGED exited
       \/ SetupFailed(s) /\ UNCHANGED sock
    /\ UNCHANGED <<slices, version, reachable, outages, cancelled, pubPc,
                   createErr, existing, result, unpublishCalls, everFailed>>
    /\ UNCHANGED drvVars

\* RegistrationServer.Start: case <-ctx.Done(): GracefulStop, return nil
RegistrationStops ==
    /\ ~exited /\ cancelled /\ srvPc["registration"] = "serving"
    /\ srvPc' = [srvPc EXCEPT !["registration"] = "stopped"]
    /\ UNCHANGED <<sock, slices, version, reachable, outages, cancelled, exited,
                   pubPc, createErr, existing, result, unpublishCalls, everFailed>>
    /\ UNCHANGED drvVars

NextStartup ==
    \/ \E s \in Servers :
        \/ StartMkdirAll(s)
        \/ StartRemove(s)
        \/ StartListen(s)
    \/ RegistrationStops
    \/ Signal
    \/ MainReturns
    \/ DriverFailed

\* run has started the two servers; a socket file of an earlier run may be
\* there
InitStartup ==
    /\ Start /\ inputs = LabelledClaims /\ file = NoFile
    /\ slices = {} /\ version = 0 /\ reachable
    /\ srvPc = [s \in Servers |-> "mkdir"]
    /\ sock \in [Servers -> {NoFile, FileOf(<<>>)}]

SpecStartup == InitStartup /\ [][NextStartup]_vars

\* a ResourceSlice a run of the driver that did not unpublish has left behind
StaleSlice == [slice EXCEPT !.ResourceVersion = 1]

\* the publisher and main, with no request to the driver; the API server may
\* hold the slice of an earlier run
InitPub ==
    /\ Start /\ Listening /\ inputs = LabelledClaims /\ file = NoFile
    /\ \/ slices = {} /\ version = 0
       \/ slices = {StaleSlice} /\ version = StaleSlice.ResourceVersion

SpecPub == InitPub /\ [][NextPub]_vars

\* the goroutine of StartPublishing keeps running, and its ticker keeps firing
\* (WF). A PublishResources call under a ctx that is done fails at once and
\* the ticker fires only every 30 seconds, so a select that runs after ctx is
\* done comes to find ctx.Done() as its only ready case (SF of Done).
FairSpecPub == SpecPub /\ WF_vars(PublisherStep) /\ SF_vars(Done)

(***************************************************************************)
(* Reading the state                                                       *)
(***************************************************************************)
NonEmpty(l) == l # <<>>

\* the line records of a file, in order
Lines(f) == IF f.exists THEN SelectSeq(Split(f.data), NonEmpty) ELSE <<>>
LineSet(f) == {Lines(f)[i] : i \in 1 .. Len(Lines(f))}

\* a sequence of lines without the line l
Without(lines, l) == LET Other(x) == x # l IN SelectSeq(lines, Other)

\* the record "<label> (claim: <id>)" of a tracked claim
RecordLine(u) == searchPattern(podResources[u], u)

\* the record of a claim under the label derived for it
ClaimLine(c) == searchPattern(extractPodName(c), c.Uid)

\* the claim uids a request names
ReqUids(t) == {req[t][i].Uid : i \in 1 .. Len(req[t])}

\* handler t takes the step
Acts(t) == pc'[t] # pc[t]

\* the positions inside prepareResource / unprepareResource, between
\* d.mu.Lock() and d.mu.Unlock()
Critical == {"p_write", "u_read", "u_write"}

\* the errors of createCDISpec
CDIErrors == {"failed to create CDI directory", "failed to write CDI spec"}

AllIdle == \A t \in Handlers : pc[t] = "idle"

(***************************************************************************)
(* Claims                                                                  *)
(***************************************************************************)

\* C1: whenever no prepare/unprepare critical section is executing (and no
\* I/O failure was injected), the set of lines of the resource file is exactly
\* the set of "<label> (claim: <id>)" for the entries of podResources, one
\* line per claim id.
C1_FileMirrorsRecord ==
    (mu = Unlocked /\ faults = 0) =>
        /\ LineSet(file) = {RecordLine(u) : u \in DOMAIN podResources}
        /\ Len(Lines(file)) = Cardinality(DOMAIN podResources)

\* C2: once N NodePrepareResources calls for N pairwise distinct claim ids
\* have all returned, without failures, the resource file contains exactly N
\* lines, one per claim id.  (Every call received named one claim and every
\* claim received is the latest successful prepare of a distinct id exactly
\* when ncalls = nclaims = Cardinality(held).)
C2_ConcurrentPrepares ==
    (AllIdle /\ faults = 0 /\ ncalls > 0 /\ ncalls = nclaims
        /\ Cardinality(held) = nclaims) =>
        /\ Len(Lines(file)) = nclaims
        /\ \A u \in held : RecordLine(u) \in LineSet(file)

\* C3: round trip.  A successful prepareResource of claim X with label L
\* leaves the line "L (claim: X)" in the resource file; a successful
\* unprepareResource of X leaves the file's lines as they were, in the same
\* order, without X's line; and a line of a claim is in the file only while
\* the claim is tracked under that label, so an unprepare that finds X
\* untracked has no line of X to remove.
C3_RoundTrip ==
    /\ [](\A c \in LabelledClaims :
            ClaimLine(c) \in LineSet(file) =>
                /\ c.Uid \in DOMAIN podResources
                /\ podResources[c.Uid] = extractPodName(c))
    /\ [][\A t \in Handlers :
            /\ (pc[t] = "p_write" /\ pc'[t] = "p_cdi") =>
                    ClaimLine(Claim(t)) \in LineSet(file')
            /\ (pc[t] = "u_write" /\ pc'[t] = "u_cdi") =>
                    /\ Lines(file') = Without(Lines(file), RecordLine(Claim(t).Uid))
                    /\ RecordLine(Claim(t).Uid) = ClaimLine(Claim(t))
            /\ (pc[t] = "u_read" /\ pc'[t] = "u_cdi") => file' = file
       ]_vars

\* C3 witness: claim X, prepared with success, has just been unprepared (its
\* result is not yet in the response) and another claim's line is still in
\* the file.
C3_Witness ==
    \E t \in Handlers :
        /\ pc[t] = "u_cdi"
        /\ Claim(t).Uid \in held
        /\ Claim(t).Uid \notin DOMAIN podResources
        /\ Lines(file) # <<>>
        /\ ClaimLine(Claim(t)) \notin LineSet(file)

\* C4: unprepare is idempotent.  A successful unprepareResource of X leaves X
\* untracked (or the file absent); in such a state, and so for a claim never
\* prepared, unprepareResource of X with I/O working returns nil and changes
\* neither podResources nor the resource file; and the result recorded after
\* unprepareResource returned nil is a success (no error string) that changes
\* neither.
C4_UnprepareIdempotent ==
    [][\A t \in Handlers :
        /\ (pc[t] \in {"u_read", "u_write"} /\ pc'[t] = "u_cdi") =>
                (Claim(t).Uid \notin DOMAIN podResources' \/ ~file'.exists)
        /\ (pc[t] = "u_read" /\ Acts(t) /\ faults' = faults
                /\ (Claim(t).Uid \notin DOMAIN podResources \/ ~file.exists)) =>
                /\ pc'[t] = "u_cdi"
                /\ file' = file
                /\ podResources' = podResources
        /\ (pc[t] = "u_cdi" /\ Acts(t)) =>
                /\ Claim(t).Uid \in DOMAIN resp'[t]
                /\ resp'[t][Claim(t).Uid].Error = ""
                /\ file' = file
                /\ podResources' = podResources
      ]_vars

\* C4 witness: a request that unprepares the same claim twice in a row has
\* finished, with a success result and the claim untracked.
C4_Witness ==
    \E t \in Handlers :
        /\ pc[t] = "u_done"
        /\ Len(req[t]) = 2
        /\ req[t][1] = req[t][2]
        /\ faults = 0
        /\ resp[t][req[t][1].Uid].Error = ""
        /\ req[t][1].Uid \notin DOMAIN podResources
        /\ nclaims = 3
        /\ file = FileOf(<<>>)

\* C5: batch isolation.  In a batch of two distinct claims, run alone from
\* the initial state, if one claim's prepare fails (here: its descriptor
\* write) and the other's succeeds, the other's line is in the resource file
\* after the batch, as it is when the other claim is prepared alone.
C5_BatchIsolation ==
    \A t \in Handlers :
        (pc[t] = "p_done" /\ ncalls = 1 /\ Len(req[t]) = 2
            /\ req[t][1].Uid # req[t][2].Uid) =>
            \A i, j \in 1 .. 2 :
                (i # j /\ resp[t][req[t][i].Uid].Error \in CDIErrors
                       /\ resp[t][req[t][j].Uid].Error = "") =>
                    ClaimLine(req[t][j]) \in LineSet(file)

\* C6: every call returns a response that has an entry for every claim id of
\* the request and for no other, each prepare entry carrying either devices
\* or an error string and never both; no call is aborted by a per-claim
\* failure.
C6_ResponseComplete ==
    /\ ~crashed
    /\ \A t \in Handlers :
        Returning(t) =>
            /\ DOMAIN resp[t] = ReqUids(t)
            /\ pc[t] = "p_done" =>
                \A u \in DOMAIN resp[t] :
                    (resp[t][u].Devices # <<>>) # (resp[t][u].Error # "")

\* C7: when no call is running, a claim id is a key of podResources if and
\* only if the latest result for it was a successful prepare.
C7_RecordIffPrepared ==
    AllIdle => DOMAIN podResources = held

\* C8: without I/O failures, while the latest result for claim X is a
\* successful prepare (its matching unprepare has not completed), the CDI
\* spec file exists and its single mount has host path and container path
\* equal to the resource file path and the options ro and bind; and when an
\* unprepare call returns the CDI spec file is gone.
C8_DescriptorLifecycle ==
    faults = 0 =>
        /\ \A u \in held :
            /\ cdiFile.exists
            /\ Len(cdiFile.data) = 1
            /\ LET mounts == cdiFile.data[1].devices[1].containerEdits.mounts
               IN  /\ Len(mounts) = 1
                   /\ mounts[1].hostPath = filePath
                   /\ mounts[1].containerPath = filePath
                   /\ mounts[1].options = <<"ro", "bind">>
        /\ \A t \in Handlers : pc[t] = "u_done" => ~cdiFile.exists

\* C9: mutual exclusion.  A handler inside prepareResource or
\* unprepareResource holds the lock (so at most one is inside); the resource
\* file and podResources change only in a step of the handler holding the
\* lock; and between unprepareResource's read and its write the file and the
\* claim's record are what it read.
C9_MutualExclusion ==
    /\ [](\A t \in Handlers : pc[t] \in Critical => mu = t)
    /\ [](\A t \in Handlers :
            pc[t] = "u_write" =>
                /\ file = FileOf(data[t])
                /\ Claim(t).Uid \in DOMAIN podResources
                /\ podResources[Claim(t).Uid] = podName[t])
    /\ [][(file' # file \/ podResources' # podResources) =>
            \E t \in Handlers : mu = t /\ pc[t] \in Critical /\ Acts(t)]_vars

\* C9 witness: one handler is between unprepareResource's read and write
\* while another waits for the lock.
C9_Witness ==
    \E t, s \in Handlers :
        /\ t # s
        /\ pc[t] = "u_write"
        /\ pc[s] \in {"p_lock", "u_lock"}

\* C10: a read or write failure in unprepareResource of a tracked claim X
\* puts an error string in X's result and leaves podResources unchanged; a
\* tracked claim's file exists, so a retry with I/O working reads it, writes
\* it back without X's line, untracks X and records a success.
C10_UnprepareFailure ==
    /\ [](DOMAIN podResources # {} => file.exists)
    /\ [][\A t \in Handlers :
            /\ (pc[t] \in {"u_read", "u_write"} /\ Acts(t) /\ faults' # faults) =>
                    /\ Claim(t).Uid \in DOMAIN podResources
                    /\ podResources' = podResources
                    /\ Claim(t).Uid \in DOMAIN resp'[t]
                    /\ resp'[t][Claim(t).Uid].Error # ""
            /\ (pc[t] = "u_read" /\ Acts(t) /\ faults' = faults
                    /\ Claim(t).Uid \in DOMAIN podResources) =>
                    pc'[t] = "u_write"
            /\ (pc[t] = "u_write" /\ Acts(t) /\ faults' = faults) =>
                    /\ pc'[t] = "u_cdi"
                    /\ Claim(t).Uid \notin DOMAIN podResources'
                    /\ RecordLine(Claim(t).Uid) \notin LineSet(file')
            /\ (pc[t] = "u_cdi" /\ Acts(t)) =>
                    resp'[t][Claim(t).Uid].Error = ""
       ]_vars

\* C10 witness: in a request naming X twice, the first unprepare of X failed
\* (X's entry carries the error) and the retry has just untracked X.
C10_Witness ==
    \E t \in Handlers :
        /\ pc[t] = "u_cdi"
        /\ idx[t] = 2
        /\ req[t][1].Uid = req[t][2].Uid
        /\ Claim(t).Uid \in DOMAIN resp[t]
        /\ resp[t][Claim(t).Uid].Error # ""
        /\ Claim(t).Uid \notin DOMAIN podResources
        /\ Claim(t).Uid \in held

(***************************************************************************)
(* Claims of the lifecycle handler, continued                              *)
(***************************************************************************)
\* how many of the lines are the line l
Occurrences(lines, l) == LET Same(x) == x = l IN Len(SelectSeq(lines, Same))

\* the text "pod-using-claim-A (claim: abc123)"
LineOfClaimA ==
    <<"p","o","d","-","u","s","i","n","g","-","c","l","a","i","m","-","A",
      " ","(","c","l","a","i","m",":"," ","a","b","c","1","2","3",")">>

\* C16: a prepare of claim X whose latest result is a successful prepare (no
\* unprepare in between) is not rejected, and when the resource file held one
\* record of X before it, the file holds two records of X after it.
C16_DoublePrepare ==
    [][\A t \in Handlers :
        (pc[t] = "p_write" /\ Acts(t) /\ faults' = faults
            /\ Claim(t).Uid \in held
            /\ Occurrences(Lines(file), ClaimLine(Claim(t))) = 1) =>
            /\ pc'[t] = "p_cdi"
            /\ Occurrences(Lines(file'), ClaimLine(Claim(t))) = 2
      ]_vars

\* C17: the label a successful prepareResource records and writes for a claim
\* is "pod-using-<name>" when the name is not empty and otherwise "pod-"
\* followed by the first characters of the claim id, and the line written is
\* "<label> (claim: <id>)"; preparing {abc123, claim-A} on a file without
\* lines leaves the file with the text "pod-using-claim-A (claim: abc123)" and
\* a newline, and unpreparing that claim from that file leaves it empty.
C17_LabelScenario ==
    [][\A t \in Handlers :
        /\ (pc[t] = "p_write" /\ pc'[t] = "p_cdi") =>
            LET c == Claim(t)
                label == podResources'[c.Uid] IN
                /\ c.Name # <<>> => label = <<"p","o","d","-","u","s","i","n","g","-">> \o c.Name
                /\ c.Name = <<>> => label = <<"p","o","d","-">> \o SubSeq(c.Uid, 1, 8)
                /\ label \o <<" ","(","c","l","a","i","m",":"," ">> \o c.Uid \o <<")">>
                        \in LineSet(file')
                /\ (c = ClaimA /\ Lines(file) = <<>>) =>
                        file' = FileOf(LineOfClaimA \o <<"\n">>)
        /\ (pc[t] = "u_write" /\ pc'[t] = "u_cdi" /\ Claim(t) = ClaimA
                /\ file = FileOf(LineOfClaimA \o <<"\n">>)) =>
                file' = FileOf(<<>>)
      ]_vars

\* claim {abc123, claim-A}, prepared on a file without lines, has just been
\* unprepared and the file is empty
C17_Witness ==
    \E t \in Handlers :
        /\ pc[t] = "u_cdi"
        /\ Claim(t) = ClaimA
        /\ ClaimA.Uid \in held
        /\ ncalls = 2 /\ nclaims = 2 /\ faults = 0
        /\ file = FileOf(<<>>)

\* C18: once the resource-file part of a claim's unprepare has succeeded, the
\* claim's result is a success whatever deleteCDISpec did (deleted the file,
\* failed, or found no file), and the step changes neither podResources nor
\* the resource file.
C18_BestEffortDelete ==
    [][\A t \in Handlers :
        (pc[t] = "u_cdi" /\ Acts(t)) =>
            /\ resp'[t][Claim(t).Uid] = [Error |-> ""]
            /\ podResources' = podResources
            /\ file' = file
            /\ cdiFile' \in {cdiFile, NoFile}
      ]_vars

\* an unprepare has recorded a success though deleteCDISpec failed and the CDI
\* spec file is still there
C18_Witness ==
    \E t \in Handlers :
        /\ pc[t] = "u_done"
        /\ resp[t][req[t][Len(req[t])].Uid].Error = ""
        /\ cdiFile.exists
        /\ faults = 1
        /\ req[t][Len(req[t])].Uid \notin DOMAIN podResources

\* C19: a successful prepareResource of claim Y leaves in the resource file
\* the lines it held before, in the same order, followed by Y's line.
C19_PrepareAppends ==
    [][\A t \in Handlers :
        (pc[t] = "p_write" /\ pc'[t] = "p_cdi") =>
            Lines(file') = Append(Lines(file), ClaimLine(Claim(t)))
      ]_vars

\* C20: when the first request of a run, a NodePrepareResources of one claim
\* X (so X was not tracked and the file had no line of X before the call),
\* ends with an error result for X, X is not a key of podResources and the
\* resource file has no line of X.
C20_RecordOnlyOnSuccess ==
    \A t \in Handlers :
        (pc[t] = "p_done" /\ ncalls = 1 /\ Len(req[t]) = 1
            /\ resp[t][req[t][1].Uid].Error # "") =>
            /\ req[t][1].Uid \notin DOMAIN podResources
            /\ ClaimLine(req[t][1]) \notin LineSet(file)

\* C21: an unprepareResource of a tracked claim X that returns nil (so that
\* X's result is a success) leaves X untracked, also when it found no resource
\* file.
C21_UnprepareUntracks ==
    [][\A t \in Handlers :
        (pc[t] \in {"u_read", "u_write"} /\ pc'[t] = "u_cdi"
            /\ Claim(t).Uid \in DOMAIN podResources) =>
            Claim(t).Uid \notin DOMAIN podResources'
      ]_vars

\* the claims that are tracked and whose latest result is a successful prepare
Prepared == held \cap DOMAIN podResources

\* C22: without I/O failures, when no call is running every prepared claim
\* has its CDI spec file; and the unprepare of a prepared claim X leaves the
\* CDI spec file of another prepared claim Y as it is.
C22_PerClaimDescriptors ==
    /\ []((AllIdle /\ faults = 0 /\ Prepared # {}) => cdiFile.exists)
    /\ [][\A t \in Handlers :
            (pc[t] = "u_cdi" /\ Acts(t) /\ faults' = 0
                /\ Claim(t).Uid \in held
                /\ Prepared \ {Claim(t).Uid} # {}) =>
                cdiFile' = cdiFile
         ]_vars

\* C23: when all the calls of a run name the one claim X and none met an I/O
\* failure, the state they leave behind once all have returned is one that
\* the same calls leave when run one after another: X tracked with its line
\* in the resource file and its CDI spec file present, or X untracked with no
\* line and no CDI spec file.
C23_Linearizable ==
    (AllIdle /\ faults = 0) =>
        LET tracked == ClaimA.Uid \in DOMAIN podResources IN
            /\ tracked <=> cdiFile.exists
            /\ tracked <=> ClaimLine(ClaimA) \in LineSet(file)

\* C24: for every claim, one with an empty name and an id shorter than 8
\* characters included, the step of NodePrepareResources that derives the
\* label yields a label and goes on to prepareResource (where the claim gets
\* its result and the loop its next claim): deriving the label ends no
\* process.
C24_LabelNeverFaults ==
    [][\A t \in Handlers :
        (pc[t] = "p_lock" /\ (Acts(t) \/ crashed' # crashed)) =>
            /\ ~crashed'
            /\ pc'[t] = "p_write"
            /\ podName'[t] # <<>>
      ]_vars

\* C26: the resource file, absent or empty at the start, never holds more
\* than one line; and right after a successful prepareResource of claim X
\* with label L its content is the one line "L (claim: X)" and a newline,
\* whatever was prepared before.
C26_SingleLine ==
    /\ [](Len(Lines(file)) <= 1)
    /\ [][\A t \in Handlers :
            (pc[t] = "p_write" /\ pc'[t] = "p_cdi") =>
                /\ file' = FileOf(searchPattern(podName[t], Claim(t).Uid) \o <<"\n">>)
                /\ podResources'[Claim(t).Uid] = podName[t]
         ]_vars

\* two claims are prepared and tracked, and the file holds one line
C26_Witness ==
    /\ Cardinality(Prepared) = 2
    /\ faults = 0
    /\ Len(Lines(file)) = 1

(***************************************************************************)
(* The claim of the servers' setup                                         *)
(***************************************************************************)
\* C25: when setting up the socket of either server has failed (making the
\* directory, removing the old socket file, or listening) the process has
\* ended; and a server gets to listen only with the old socket file removed
\* or absent.
C25_SetupFatal ==
    \A s \in Servers :
        /\ srvPc[s] = "failed" => exited
        /\ srvPc[s] = "listen" => ~sock[s].exists

(***************************************************************************)
(* The publisher's claims                                                  *)
(***************************************************************************)
\* the stored slices of this node and driver
Records == Named(slices, sliceName)

\* a PublishResources call returns in this step
PublishReturn == pubPc \in {"create", "get", "update"} /\ pubPc' = "select"

\* C11: the API server never holds two slices named "<node>-<driver>"; while
\* the publisher's latest call is a successful PublishResources it holds exactly
\* one, with exactly one device, named after the resource; once
\* UnpublishResources has succeeded it holds none.
C11_RecordUnique ==
    /\ Cardinality(Records) <= 1
    /\ result = Published(NoError) =>
          /\ Cardinality(Records) = 1
          /\ \A o \in Records :
                Len(o.Devices) = 1 /\ o.Devices[1].Name = resourceName
    /\ result = Unpublished(NoError) => Records = {}

\* PublishResources has succeeded at least twice on a slice that was stored
C11_Witness ==
    /\ result = Published(NoError)
    /\ version >= 3
    /\ Cardinality(Records) = 1

\* C12: PublishResources updates the slice only when Create failed with
\* AlreadyExists; a call whose Create failed for another reason returns an
\* error; a call whose Get failed returns an error.
C12_FallbackPolicy ==
    [][/\ (pubPc = "update" /\ pubPc' # "update") => createErr = AlreadyExists
       /\ (PublishReturn /\ createErr \notin {NoError, AlreadyExists})
              => result'.err # NoError
       /\ (pubPc = "get" /\ PublishReturn /\ Get(slices, sliceName, CtxOK).err # NoError)
              => result'.err # NoError]_vars

\* C13: UnpublishResources is called at most once and only after ctx is done,
\* under a context that is not done with ctx (a reachable server deletes the
\* slice); StartPublishing returns only after ctx is done and after that one
\* call; no PublishResources call starts once UnpublishResources was called;
\* and, while the process lives, a done ctx leads to the loop's return.
C13_ShutdownOrdering ==
    /\ [](unpublishCalls <= 1)
    /\ [](unpublishCalls = 1 => cancelled)
    /\ [](pubPc = "stopped" =>
            cancelled /\ unpublishCalls = 1 /\ result.op = "unpublish")
    /\ [][(pubPc # "create" /\ pubPc' = "create") => unpublishCalls = 0]_vars
    /\ [][(pubPc = "delete" /\ pubPc' = "stopped" /\ reachable)
              => (Records' = {} /\ (Records # {} => result'.err = NoError))]_vars
    /\ (cancelled ~> (pubPc = "stopped" \/ exited))

\* the loop has returned after a successful UnpublishResources of a stored slice
C13_Witness ==
    /\ pubPc = "stopped"
    /\ result = Unpublished(NoError)
    /\ ~exited

\* C14: when the process has exited on the shutdown signal and the API server
\* was reachable all along, the slice has been deleted: UnpublishResources has
\* completed.
C14_ShutdownRetracts ==
    (exited /\ cancelled /\ outages = 0 /\ reachable) =>
        (pubPc = "stopped" /\ Records = {})

\* C15: a PublishResources call that returns an error leaves the loop at its
\* select and the process running; and if from some time on the API server
\* stays reachable while the loop runs (ctx not done, process alive), the slice
\* is stored from some time on.
C15_SelfHeal ==
    /\ [][(PublishReturn /\ result'.err # NoError)
              => (pubPc' = "select" /\ exited' = exited /\ crashed' = crashed)]_vars
    /\ (<>[](reachable /\ ~cancelled /\ ~exited) => <>[](Records # {}))

\* the slice is stored by a PublishResources call that came after a failed one
C15_Witness ==
    /\ everFailed
    /\ result = Published(NoError)
    /\ ~cancelled /\ ~exited
    /\ Records # {}

====
